---- MODULE Spec2Model ----
(***************************************************************************)
(* Model of the mcp-acp tool server: the ACPClient operations of           *)
(* src/mcp_acp/client.py (bulk gate, dry-run, by-label resolution,         *)
(* session listing pipeline) and the call_tool dispatcher of               *)
(* src/mcp_acp/server.py, run against a model of the cluster that the oc   *)
(* command line talks to.                                                  *)
(*                                                                         *)
(* Strings that the code inspects character by character (resource names,  *)
(* duration strings) are sequences of one-character strings.  Python       *)
(* dictionaries are functions from the keys that are present to values;    *)
(* Python values inside result dictionaries are strings ("True", "False",  *)
(* "None", message tags) so that dict.get and truthiness can be modelled   *)
(* as the code evaluates them.                                             *)
(***************************************************************************)
EXTENDS Integers, Sequences, FiniteSets, TLC

VARIABLES
    cluster,    \* the external cluster: session name -> [phase, labels]
    pc,         \* "idle" | "pending" | "done": position of the request loop
    request,    \* the call in flight (arguments of the client method / tool)
    response,   \* what the call returned or raised
    ocLog,      \* oc processes started by the call, in order
    opCalls,    \* per-target operation invocations made by the call, in order
    ls,         \* session-listing pipeline: inputs and result of list_sessions
    call,       \* a helper of the client applied on its own: input and result
    reg         \* the cluster registry: its file, the server's client handle
                \* and the registry the client holds in memory

vars == <<cluster, pc, request, response, ocLog, opCalls, ls, call, reg>>

----------------------------------------------------------------------------
(* Bounds of the model *)

MaxTargets == 4      \* longest target list of a bulk request
MaxFaults == 1       \* oc calls of one request that time out or fail upstream
MaxRecords == 2      \* records returned by the list call of list_sessions
MaxLen == 3          \* characters of a string handed to a parser or validator
MaxLoads == 2        \* constructions of the client the server attempts

(* Program constants *)

MAX_BULK_ITEMS == 3
MAX_NAME_LENGTH == 253
LABEL_PREFIX == "acp.ambient-code.ai/label-"
ALLOWED_RESOURCE_TYPES == {"agenticsession", "pods", "event"}

----------------------------------------------------------------------------
(* Characters and names *)

LowerChars == {"a","b","c","d","e","f","g","h","i","j","k","l","m",
               "n","o","p","q","r","s","t","u","v","w","x","y","z"}
DigitChars == {"0","1","2","3","4","5","6","7","8","9"}
AlnumChars == LowerChars \cup DigitChars
\* the backquote character is written "BACKQUOTE"
ShellMetaChars == {";", "|", "&", "$", "BACKQUOTE", "\n", "\r"}

\* Sessions the model tracks in the cluster
Names == {<<"a">>, <<"b">>, <<"c">>, <<"d">>}
\* Names a caller passes as bulk targets: two tracked sessions and a name
\* carrying a shell metacharacter
BadName == <<"x", ";", "y">>
TargetNames == {<<"a">>, <<"b">>, BadName}
Project == <<"p">>

\* ACPClient._validate_input: length bound, then
\* re.match(r"^[a-z0-9]([-a-z0-9]*[a-z0-9])?$", value); Python's $ also
\* matches just before a newline that ends the string.
DnsCore(s) ==
    /\ Len(s) >= 1
    /\ s[1] \in AlnumChars
    /\ s[Len(s)] \in AlnumChars
    /\ \A i \in 1..Len(s) : s[i] \in AlnumChars \cup {"-"}

_validate_input(value) ==
    /\ Len(value) <= MAX_NAME_LENGTH
    /\ \/ DnsCore(value)
       \/ /\ Len(value) >= 2
          /\ value[Len(value)] = "\n"
          /\ DnsCore(SubSeq(value, 1, Len(value) - 1))

\* _run_oc_command's argument screen: no element may hold a metacharacter
HasSuspiciousChars(arg) == \E i \in 1..Len(arg) : arg[i] \in ShellMetaChars

----------------------------------------------------------------------------
(* Python dictionaries and values *)

Get(d, k, default) == IF k \in DOMAIN d THEN d[k] ELSE default
Truthy(v) == v \notin {"False", "None", ""}
Bool(b) == IF b THEN "True" ELSE "False"

----------------------------------------------------------------------------
(* The cluster behind oc.  A session is absent, or has a phase and a set   *)
(* of labels (full label strings, prefix included).                        *)

Phases == {"running", "stopped"}
UserLabels == {"env=prod"}
K8sLabel(l) == <<LABEL_PREFIX, l>>
Absent == [phase |-> "absent", labels |-> {}]
SessionStates ==
    {Absent} \cup [phase : Phases, labels : SUBSET {K8sLabel(l) : l \in UserLabels}]

Exists(cl, n) == n \in DOMAIN cl /\ cl[n].phase # "absent"

\* sessions a list call returns, in the order the cluster lists them (by
\* name): those carrying every label of the selector
ListItems(cl, selector) ==
    SelectSeq(<< <<"a">>, <<"b">>, <<"c">>, <<"d">> >>,
              LAMBDA n : Exists(cl, n) /\ selector \subseteq cl[n].labels)

----------------------------------------------------------------------------
(* oc processes.  A call context ctx = [cl, log, ops] threads the cluster, *)
(* the processes started so far and the per-target operations invoked so   *)
(* far through one client call.  A fault plan maps positions of the call's *)
(* oc processes to "timeout" or "error" (an upstream failure other than    *)
(* not-found); processes at other positions answer from the cluster.       *)

NoFaults == << >>

FaultPlansUpTo(n) ==
    UNION { [P -> {"timeout", "error"}] :
            P \in {Q \in SUBSET (1..n) : Cardinality(Q) <= MaxFaults} }

MutatingVerbs == {"delete", "patch", "label", "create"}

\* what the cluster answers and becomes when the command runs to completion
OcAnswer(cl, verb, target, arg) ==
    CASE verb = "list" -> [out |-> "ok", cl |-> cl]
      [] verb = "create" -> [out |-> "ok", cl |-> cl]
      [] ~Exists(cl, target) -> [out |-> "notfound", cl |-> cl]
      [] verb = "get" -> [out |-> "ok", cl |-> cl]
      [] verb = "delete" -> [out |-> "ok", cl |-> [cl EXCEPT ![target] = Absent]]
      [] verb = "patch" /\ arg \in Phases ->
            [out |-> "ok", cl |-> [cl EXCEPT ![target].phase = arg]]
      [] verb = "patch" -> [out |-> "ok", cl |-> cl]
      [] verb = "label" /\ arg.add ->
            [out |-> "ok",
             cl |-> [cl EXCEPT ![target].labels = @ \cup arg.labels]]
      [] verb = "label" ->
            [out |-> "ok",
             cl |-> [cl EXCEPT ![target].labels = @ \ arg.labels]]
      [] OTHER -> [out |-> "error", cl |-> cl]

\* the fault planned for the next oc process of the call, "ok" when none
Fault(ctx, plan) ==
    IF Len(ctx.log) + 1 \in DOMAIN plan THEN plan[Len(ctx.log) + 1] ELSE "ok"

\* _run_oc_command once the process has ended with answer ans: the process
\* is on record, the cluster is what the command left
OcCompleted(ctx, verb, target, arg, ans) ==
    [ctx |-> [ctx EXCEPT
                !.cl = ans.cl,
                !.log = Append(@, [verb |-> verb, target |-> target, out |-> ans.out,
                                   items |-> IF verb = "list" /\ ans.out = "ok"
                                             THEN ListItems(ctx.cl, arg) ELSE << >>,
                                   selector |-> IF verb = "list" THEN arg ELSE {}])],
     out |-> ans.out,
     items |-> IF verb = "list" /\ ans.out = "ok" THEN ListItems(ctx.cl, arg) ELSE << >>,
     phase |-> IF verb = "get" /\ ans.out = "ok" THEN ctx.cl[target].phase ELSE "none"]

\* ACPClient._run_oc_command: screen the arguments, start the process, wait
\* for it under the timeout.  out = "rejected" is the ValueError raised before
\* any process exists; "timeout" the TimeoutError after the process is killed.
_run_oc_command(ctx, verb, target, arg, plan) ==
    IF HasSuspiciousChars(target)
    THEN [ctx |-> ctx, out |-> "rejected", items |-> << >>, phase |-> "none"]
    ELSE OcCompleted(ctx, verb, target, arg,
                     IF Fault(ctx, plan) = "ok"
                     THEN OcAnswer(ctx.cl, verb, target, arg)
                     ELSE [out |-> Fault(ctx, plan), cl |-> ctx.cl])

NoExc == [type |-> "none", msg |-> "", limit |-> 0, count |-> 0]
Raise(type, msg) == [type |-> type, msg |-> msg, limit |-> 0, count |-> 0]
\* what a handler hands back: the context, the exception raised (or none)
\* and the result dictionary returned
Ret(ctx, exc, result) == [ctx |-> ctx, exc |-> exc, result |-> result]
NoResult == << >>

\* the message an oc failure leaves in stderr / str(e)
OcMessage(out) ==
    CASE out = "notfound" -> "not found"
      [] out = "timeout" -> "Command timed out"
      [] out = "rejected" -> "Argument contains suspicious characters"
      [] OTHER -> "upstream error"

\* _get_resource_json after its oc get returned r
GotResource(name, r) ==
    CASE r.out = "rejected" ->
            Ret(r.ctx, Raise("ValueError", OcMessage(r.out)), NoResult)
      [] r.out = "timeout" ->
            Ret(r.ctx, Raise("TimeoutError", OcMessage(r.out)), NoResult)
      [] r.out # "ok" ->
            Ret(r.ctx, Raise("Exception", OcMessage(r.out)), NoResult)
      [] OTHER ->
            Ret(r.ctx, NoExc, [name |-> name, phase |-> r.phase])

\* ACPClient._get_resource_json
_get_resource_json(ctx, resource_type, name, plan) ==
    IF resource_type \notin ALLOWED_RESOURCE_TYPES
    THEN Ret(ctx, Raise("ValueError", "not allowed"), NoResult)
    ELSE IF ~_validate_input(name)
    THEN Ret(ctx, Raise("ValueError", "invalid characters"), NoResult)
    ELSE IF ~_validate_input(Project)
    THEN Ret(ctx, Raise("ValueError", "invalid characters"), NoResult)
    ELSE GotResource(name, _run_oc_command(ctx, "get", name, {}, plan))

----------------------------------------------------------------------------
(* Single-target operations of the client.  Each returns Ret(ctx, exc,     *)
(* result): the exception that leaves the method, or the result dict.      *)

\* _validate_session_for_dry_run after the lookup g: try / except Exception
DryRunValidated(g) ==
    IF g.exc.type = "none"
    THEN Ret(g.ctx, NoExc,
             ("dry_run" :> "True" @@ "success" :> "True"
              @@ "message" :> "Would delete session"
              @@ "session_info" :> g.result.phase))
    ELSE Ret(g.ctx, NoExc,
             ("dry_run" :> "True" @@ "success" :> "False"
              @@ "message" :> "not found"))

\* ACPClient._validate_session_for_dry_run
_validate_session_for_dry_run(ctx, session, plan) ==
    DryRunValidated(_get_resource_json(ctx, "agenticsession", session, plan))

\* delete_session after its oc delete returned r
Deleted(r) ==
    CASE r.out = "rejected" ->
            Ret(r.ctx, Raise("ValueError", OcMessage(r.out)), NoResult)
      [] r.out = "timeout" ->
            Ret(r.ctx, Raise("TimeoutError", OcMessage(r.out)), NoResult)
      [] r.out # "ok" ->
            Ret(r.ctx, NoExc,
                ("deleted" :> "False" @@ "message" :> OcMessage(r.out)))
      [] OTHER ->
            Ret(r.ctx, NoExc,
                ("deleted" :> "True" @@ "message" :> "Successfully deleted"))

\* ACPClient.delete_session past the dry-run branch: oc delete
DeleteForReal(ctx, session, plan) ==
    Deleted(_run_oc_command(ctx, "delete", session, {}, plan))

\* delete_session without its dry-run branch
delete_session_always_real(ctx, session, dry_run, plan) ==
    DeleteForReal(ctx, session, plan)

\* ACPClient.delete_session
delete_session(ctx, session, dry_run, plan) ==
    IF dry_run
    THEN _validate_session_for_dry_run(ctx, session, plan)
    ELSE DeleteForReal(ctx, session, plan)

\* restart_session after its oc patch returned r
Restarted(r) ==
    IF r.out = "ok"
    THEN Ret(r.ctx, NoExc,
             ("status" :> "restarting" @@ "message" :> "Successfully restarted"))
    ELSE Ret(r.ctx, NoExc,
             ("status" :> "error" @@ "message" :> OcMessage(r.out)))

\* restart_session after the lookup g
RestartFetched(g, session, dry_run, plan) ==
    IF g.exc.type # "none"
    THEN Ret(g.ctx, NoExc, ("status" :> "error" @@ "message" :> g.exc.msg))
    ELSE IF dry_run
    THEN Ret(g.ctx, NoExc,
             ("status" :> g.result.phase @@ "dry_run" :> "True"
              @@ "success" :> "True" @@ "message" :> "Would restart session"
              @@ "session_info" :> g.result.phase))
    ELSE Restarted(_run_oc_command(g.ctx, "patch", session, "running", plan))

\* ACPClient.restart_session: the whole body sits in try/except Exception
restart_session(ctx, session, dry_run, plan) ==
    RestartFetched(_get_resource_json(ctx, "agenticsession", session, plan),
                   session, dry_run, plan)

\* stop_session after its oc patch returned r
Stopped(r) ==
    CASE r.out = "ok" ->
            Ret(r.ctx, NoExc, ("stopped" :> "True" @@ "message" :> "Success"))
      [] r.out \in {"rejected", "timeout"} ->
            Ret(r.ctx, NoExc,
                ("stopped" :> "False" @@ "success" :> "False"
                 @@ "message" :> OcMessage(r.out)))
      [] OTHER ->
            Ret(r.ctx, NoExc,
                ("stopped" :> "False" @@ "message" :> OcMessage(r.out)))

\* stop_session after the lookup g
StopFetched(g, session, dry_run, plan) ==
    IF g.exc.type # "none"
    THEN Ret(g.ctx, NoExc,
             ("stopped" :> "False" @@ "success" :> "False"
              @@ "message" :> g.exc.msg))
    ELSE IF dry_run
    THEN Ret(g.ctx, NoExc,
             ("dry_run" :> "True"
              @@ "success" :> Bool(g.result.phase = "running")
              @@ "message" :> "Session status"
              @@ "session_info" :> g.result.phase))
    ELSE Stopped(_run_oc_command(g.ctx, "patch", session, "stopped", plan))

\* stop_session, the helper inside ACPClient.bulk_stop_sessions
stop_session(ctx, session, dry_run, plan) ==
    StopFetched(_get_resource_json(ctx, "agenticsession", session, plan),
                session, dry_run, plan)

\* label_resource / unlabel_resource after the oc label returned r
Labelled(r, key) ==
    CASE r.out = "rejected" ->
            Ret(r.ctx, Raise("ValueError", OcMessage(r.out)), NoResult)
      [] r.out = "timeout" ->
            Ret(r.ctx, Raise("TimeoutError", OcMessage(r.out)), NoResult)
      [] r.out = "ok" ->
            Ret(r.ctx, NoExc, (key :> "True" @@ "resource" :> "name"))
      [] OTHER ->
            Ret(r.ctx, NoExc, (key :> "False" @@ "message" :> OcMessage(r.out)))

\* label_resource / unlabel_resource without the check of the resource type
LabelOrUnlabel_any_type(ctx, resource_type, name, labels, dry_run, plan, add) ==
    IF dry_run
    THEN Ret(ctx, NoExc,
             ("dry_run" :> "True" @@ "resource" :> "name"
              @@ "message" :> IF add THEN "Would label" ELSE "Would remove labels"))
    ELSE Labelled(_run_oc_command(ctx, "label", name,
                      [add |-> add, labels |-> {K8sLabel(l) : l \in labels}], plan),
                  IF add THEN "labeled" ELSE "unlabeled")

\* ACPClient.label_resource (labels is the user's label set; add = TRUE) and
\* ACPClient.unlabel_resource (add = FALSE) differ in the oc arguments only
LabelOrUnlabel(ctx, resource_type, name, labels, dry_run, plan, add) ==
    IF resource_type \notin ALLOWED_RESOURCE_TYPES
    THEN Ret(ctx, Raise("ValueError", "not allowed"), NoResult)
    ELSE IF dry_run
    THEN Ret(ctx, NoExc,
             ("dry_run" :> "True" @@ "resource" :> "name"
              @@ "message" :> IF add THEN "Would label" ELSE "Would remove labels"))
    ELSE Labelled(_run_oc_command(ctx, "label", name,
                      [add |-> add, labels |-> {K8sLabel(l) : l \in labels}], plan),
                  IF add THEN "labeled" ELSE "unlabeled")

label_resource(ctx, resource_type, name, labels, dry_run, plan) ==
    LabelOrUnlabel(ctx, resource_type, name, labels, dry_run, plan, TRUE)

unlabel_resource(ctx, resource_type, name, label_keys, dry_run, plan) ==
    LabelOrUnlabel(ctx, resource_type, name, label_keys, dry_run, plan, FALSE)

\* clone_session after its oc create returned r
Cloned(r) ==
    IF r.out = "ok"
    THEN Ret(r.ctx, NoExc, ("cloned" :> "True" @@ "message" :> "Successfully cloned"))
    ELSE Ret(r.ctx, NoExc, ("cloned" :> "False" @@ "message" :> OcMessage(r.out)))

\* clone_session after the lookup g of the source
CloneFetched(g, dry_run, plan) ==
    IF g.exc.type # "none"
    THEN Ret(g.ctx, NoExc, ("cloned" :> "False" @@ "message" :> g.exc.msg))
    ELSE IF dry_run
    THEN Ret(g.ctx, NoExc,
             ("dry_run" :> "True" @@ "success" :> "True"
              @@ "message" :> "Would clone session"))
    ELSE Cloned(_run_oc_command(g.ctx, "create", << >>, {}, plan))

\* ACPClient.clone_session: get the source, then oc create -f <manifest>
clone_session(ctx, source_session, dry_run, plan) ==
    CloneFetched(_get_resource_json(ctx, "agenticsession", source_session, plan),
                 dry_run, plan)

\* update_session after its oc patch returned r
Updated(r) ==
    IF r.out = "ok"
    THEN Ret(r.ctx, NoExc, ("updated" :> "True" @@ "message" :> "Successfully updated"))
    ELSE Ret(r.ctx, NoExc, ("updated" :> "False" @@ "message" :> OcMessage(r.out)))

\* update_session after the lookup g
UpdateFetched(g, session, dry_run, plan) ==
    IF g.exc.type # "none"
    THEN Ret(g.ctx, NoExc, ("updated" :> "False" @@ "message" :> g.exc.msg))
    ELSE IF dry_run
    THEN Ret(g.ctx, NoExc,
             ("dry_run" :> "True" @@ "success" :> "True"
              @@ "message" :> "Would update session"))
    ELSE Updated(_run_oc_command(g.ctx, "patch", session, "displayName", plan))

\* ACPClient.update_session with a display name to set
update_session(ctx, session, dry_run, plan) ==
    UpdateFetched(_get_resource_json(ctx, "agenticsession", session, plan),
                  session, dry_run, plan)

\* create_session_from_template after its oc create returned r
Created(r) ==
    IF r.out = "ok"
    THEN Ret(r.ctx, NoExc, ("created" :> "True" @@ "message" :> "Successfully created"))
    ELSE Ret(r.ctx, NoExc, ("created" :> "False" @@ "message" :> OcMessage(r.out)))

\* ACPClient.create_session_from_template with a known template
create_session_from_template(ctx, dry_run, plan) ==
    IF dry_run
    THEN Ret(ctx, NoExc,
             ("dry_run" :> "True" @@ "success" :> "True"
              @@ "message" :> "Would create session from template"))
    ELSE Created(_run_oc_command(ctx, "create", << >>, {}, plan))

----------------------------------------------------------------------------
(* Bulk operations of the client *)

\* the cap test with the comparison made inclusive
_validate_bulk_operation_inclusive(items) == Len(items) >= MAX_BULK_ITEMS

\* ACPClient._validate_bulk_operation: TRUE when the ValueError is raised
_validate_bulk_operation(items) == Len(items) > MAX_BULK_ITEMS

BulkLimitError(items) ==
    [type |-> "ValueError", msg |-> "Bulk limited to items for safety",
     limit |-> MAX_BULK_ITEMS, count |-> Len(items)]

\* the result dictionary of a bulk call
EmptyBulk(success_key) ==
    [success_key |-> success_key, succeeded |-> << >>, failed |-> << >>,
     dry_run |-> "absent", has_dry_run_info |-> FALSE,
     would_execute |-> << >>, skipped |-> << >>,
     matched |-> << >>, message |-> ""]

\* the per-target function _bulk_operation is given
OperationFn(fn, ctx, session, dry_run, plan) ==
    CASE fn = "delete_session" -> delete_session(ctx, session, dry_run, plan)
      [] fn = "stop_session" -> stop_session(ctx, session, dry_run, plan)

Invoke(ctx, session) == [ctx EXCEPT !.ops = Append(@, session)]

\* the success test of the dry-run branch used for real runs as well
BulkSucceeded_success_only(res, key) == Truthy(Get(res, "success", "True"))

\* _bulk_operation: result.get(success_key, result.get("success"))
BulkSucceeded(res, key) == Truthy(Get(res, key, Get(res, "success", "None")))

\* _bulk_operation in dry-run: result.get("success", True)
DryRunWouldExecute(res) == Truthy(Get(res, "success", "True"))

\* bulk_restart_sessions: status == "restarting" or result.get("success")
RestartSucceeded(res) ==
    Get(res, "status", "None") = "restarting" \/ Truthy(Get(res, "success", "None"))

\* bulk_label_resources / bulk_unlabel_resources:
\* result.get("labeled", result.get("success"))
LabelSucceeded(res, key) == Truthy(Get(res, key, Get(res, "success", "None")))

\* _bulk_operation files the result res of one target
BulkRecord(result, session, res, dry_run) ==
    IF dry_run
    THEN IF DryRunWouldExecute(res)
         THEN [result EXCEPT !.would_execute =
                 Append(@, [session |-> session,
                            info |-> Get(res, "session_info", "None")])]
         ELSE [result EXCEPT !.skipped =
                 Append(@, [session |-> session,
                            reason |-> Get(res, "message", "None")])]
    ELSE IF BulkSucceeded(res, result.success_key)
         THEN [result EXCEPT !.succeeded = Append(@, session)]
         ELSE [result EXCEPT !.failed =
                 Append(@, [session |-> session,
                            error |-> Get(res, "message", "None")])]

\* one turn of the loop of _bulk_operation: operation_fn handed back r
BulkStep(acc, session, r, dry_run) ==
    Ret(r.ctx, r.exc,
        IF r.exc.type # "none" THEN acc.result
        ELSE BulkRecord(acc.result, session, r.result, dry_run))

\* the loop of ACPClient._bulk_operation from target i on; acc = Ret(ctx,
\* exc, bulk result so far).  An exception leaving operation_fn ends the loop.
RECURSIVE BulkOperationLoop(_, _, _, _, _, _)
BulkOperationLoop(acc, sessions, i, fn, dry_run, plan) ==
    IF i > Len(sessions) \/ acc.exc.type # "none"
    THEN acc
    ELSE BulkOperationLoop(
            BulkStep(acc, sessions[i],
                     OperationFn(fn, Invoke(acc.ctx, sessions[i]), sessions[i],
                                 dry_run, plan),
                     dry_run),
            sessions, i + 1, fn, dry_run, plan)

\* what a bulk method hands back once its loop has ended as done
LoopReturn(done) ==
    IF done.exc.type # "none" THEN Ret(done.ctx, done.exc, NoResult) ELSE done

\* the response of _bulk_operation: dry_run and dry_run_info in dry-run only
BulkReturn(done, dry_run) ==
    IF done.exc.type = "none" /\ dry_run
    THEN Ret(done.ctx, NoExc,
             [done.result EXCEPT !.dry_run = "True", !.has_dry_run_info = TRUE])
    ELSE LoopReturn(done)

\* ACPClient._bulk_operation
_bulk_operation(ctx, sessions, fn, success_key, dry_run, plan) ==
    IF _validate_bulk_operation(sessions)
    THEN Ret(ctx, BulkLimitError(sessions), NoResult)
    ELSE BulkReturn(BulkOperationLoop(Ret(ctx, NoExc, EmptyBulk(success_key)),
                                      sessions, 1, fn, dry_run, plan),
                    dry_run)

\* ACPClient.bulk_delete_sessions
bulk_delete_sessions(ctx, sessions, dry_run, plan) ==
    _bulk_operation(ctx, sessions, "delete_session", "deleted", dry_run, plan)

\* ACPClient.bulk_stop_sessions
bulk_stop_sessions(ctx, sessions, dry_run, plan) ==
    _bulk_operation(ctx, sessions, "stop_session", "stopped", dry_run, plan)

\* one turn of the loop of bulk_restart_sessions: restart_session returned r
RestartStep(acc, session, r) ==
    Ret(r.ctx, r.exc,
        IF r.exc.type # "none" THEN acc.result
        ELSE IF RestartSucceeded(r.result)
        THEN [acc.result EXCEPT !.succeeded = Append(@, session)]
        ELSE [acc.result EXCEPT !.failed =
                Append(@, [session |-> session,
                           error |-> Get(r.result, "message", "None")])])

\* the loop of ACPClient.bulk_restart_sessions
RECURSIVE RestartLoop(_, _, _, _, _)
RestartLoop(acc, sessions, i, dry_run, plan) ==
    IF i > Len(sessions) \/ acc.exc.type # "none"
    THEN acc
    ELSE RestartLoop(
            RestartStep(acc, sessions[i],
                        restart_session(Invoke(acc.ctx, sessions[i]), sessions[i],
                                        dry_run, plan)),
            sessions, i + 1, dry_run, plan)

\* ACPClient.bulk_restart_sessions
bulk_restart_sessions(ctx, sessions, dry_run, plan) ==
    IF _validate_bulk_operation(sessions)
    THEN Ret(ctx, BulkLimitError(sessions), NoResult)
    ELSE LoopReturn(
            RestartLoop(Ret(ctx, NoExc,
                            [EmptyBulk("restarted") EXCEPT !.dry_run = Bool(dry_run)]),
                        sessions, 1, dry_run, plan))

\* one turn of the loop of bulk_label_resources / bulk_unlabel_resources
LabelStep(acc, name, r) ==
    Ret(r.ctx, r.exc,
        IF r.exc.type # "none" THEN acc.result
        ELSE IF LabelSucceeded(r.result, acc.result.success_key)
        THEN [acc.result EXCEPT !.succeeded = Append(@, name)]
        ELSE [acc.result EXCEPT !.failed =
                Append(@, [resource |-> name,
                           error |-> Get(r.result, "message", "None")])])

\* the loop of ACPClient.bulk_label_resources (add) / bulk_unlabel_resources
RECURSIVE LabelLoop(_, _, _, _, _, _, _, _)
LabelLoop(acc, resource_type, names, i, labels, dry_run, plan, add) ==
    IF i > Len(names) \/ acc.exc.type # "none"
    THEN acc
    ELSE LabelLoop(
            LabelStep(acc, names[i],
                      LabelOrUnlabel(Invoke(acc.ctx, names[i]), resource_type,
                                     names[i], labels, dry_run, plan, add)),
            resource_type, names, i + 1, labels, dry_run, plan, add)

\* the body bulk_label_resources and bulk_unlabel_resources share
BulkLabelOrUnlabel(ctx, resource_type, names, labels, dry_run, plan, add) ==
    IF _validate_bulk_operation(names)
    THEN Ret(ctx, BulkLimitError(names), NoResult)
    ELSE LoopReturn(
            LabelLoop(Ret(ctx, NoExc,
                          [EmptyBulk(IF add THEN "labeled" ELSE "unlabeled")
                             EXCEPT !.dry_run = Bool(dry_run)]),
                      resource_type, names, 1, labels, dry_run, plan, add))

\* ACPClient.bulk_label_resources
bulk_label_resources(ctx, resource_type, names, labels, dry_run, plan) ==
    BulkLabelOrUnlabel(ctx, resource_type, names, labels, dry_run, plan, TRUE)

\* ACPClient.bulk_unlabel_resources
bulk_unlabel_resources(ctx, resource_type, names, label_keys, dry_run, plan) ==
    BulkLabelOrUnlabel(ctx, resource_type, names, label_keys, dry_run, plan, FALSE)

----------------------------------------------------------------------------
(* Session listing: ACPClient.list_sessions and its helpers.  A session    *)
(* record is [name, phase, created, stoppedAt, displayName]; timestamps    *)
(* are minutes on a common clock, NoTimestamp when the field is missing;   *)
(* displayName is "" when missing.                                         *)

NoTimestamp == -1

\* str.lower() on the characters of the model's duration strings
LowerChar(c) ==
    CASE c = "D" -> "d" [] c = "H" -> "h" [] c = "M" -> "m" [] OTHER -> c
Lower(str) == [i \in 1..Len(str) |-> LowerChar(str[i])]

\* str.lower() on the phase and status words of the model
LowerWord(w) ==
    CASE w \in {"Running", "RUNNING"} -> "running"
      [] w \in {"Stopped", "STOPPED"} -> "stopped"
      [] OTHER -> w

DigitValue(c) ==
    CASE c = "0" -> 0 [] c = "1" -> 1 [] c = "2" -> 2 [] c = "3" -> 3
      [] c = "4" -> 4 [] c = "5" -> 5 [] c = "6" -> 6 [] c = "7" -> 7
      [] c = "8" -> 8 [] c = "9" -> 9

\* length of the longest prefix of digits
RECURSIVE DigitPrefix(_, _)
DigitPrefix(str, i) ==
    IF i <= Len(str) /\ str[i] \in DigitChars THEN DigitPrefix(str, i + 1) ELSE i - 1

RECURSIVE DecimalValue(_, _)
DecimalValue(str, n) ==
    IF n = 0 THEN 0 ELSE 10 * DecimalValue(str, n - 1) + DigitValue(str[n])

\* the groups of the match: k digits, then the unit character
ParsedDelta(low, k, now) ==
    IF k >= 1 /\ k + 1 <= Len(low) /\ low[k + 1] \in {"d", "h", "m"}
    THEN [ok |-> TRUE,
          cutoff |-> now - DecimalValue(low, k) *
                       (CASE low[k + 1] = "d" -> 24 * 60
                          [] low[k + 1] = "h" -> 60
                          [] OTHER -> 1)]
    ELSE [ok |-> FALSE, cutoff |-> 0]

\* re.match(r"(\d+)([dhm])", low): the pattern is matched at the start of
\* the string and need not reach its end
MatchDelta(low, now) == ParsedDelta(low, DigitPrefix(low, 1), now)

\* ACPClient._parse_time_delta: the cutoff time, or ok = FALSE for the
\* ValueError
_parse_time_delta(time_str, now) == MatchDelta(Lower(time_str), now)

\* the comparison with the cutoff made inclusive
_is_older_than_inclusive(timestamp, cutoff) ==
    IF timestamp = NoTimestamp THEN FALSE ELSE timestamp <= cutoff

\* ACPClient._is_older_than
_is_older_than(timestamp, cutoff) ==
    IF timestamp = NoTimestamp THEN FALSE ELSE timestamp < cutoff

\* order on names (one-character names): string comparison
CharRank(c) ==
    CASE c = "a" -> 1 [] c = "b" -> 2 [] c = "c" -> 3 [] c = "d" -> 4 [] OTHER -> 0
RECURSIVE SeqLess(_, _)
SeqLess(x, y) ==
    IF x = << >> THEN y # << >>
    ELSE IF y = << >> THEN FALSE
    ELSE IF CharRank(Head(x)) # CharRank(Head(y))
         THEN CharRank(Head(x)) < CharRank(Head(y))
         ELSE SeqLess(Tail(x), Tail(y))

\* key_a < key_b under the sort key of _sort_sessions
KeyLess(sort_by, a, b) ==
    CASE sort_by = "created" -> a.created < b.created
      [] sort_by = "stopped" -> a.stoppedAt < b.stoppedAt
      [] OTHER -> SeqLess(a.name, b.name)

\* sorted(key=..., reverse=...) is stable in both directions: an element goes
\* after every element already placed that does not sort strictly after it
RECURSIVE InsertSorted(_, _, _, _)
InsertSorted(sorted, x, sort_by, reverse) ==
    IF sorted = << >> THEN << x >>
    ELSE IF (IF reverse THEN KeyLess(sort_by, Head(sorted), x)
                        ELSE KeyLess(sort_by, x, Head(sorted)))
         THEN << x >> \o sorted
         ELSE << Head(sorted) >> \o InsertSorted(Tail(sorted), x, sort_by, reverse)

RECURSIVE SortedBy(_, _, _, _)
SortedBy(sessions, n, sort_by, reverse) ==
    IF n = 0 THEN << >>
    ELSE InsertSorted(SortedBy(sessions, n - 1, sort_by, reverse),
                      sessions[n], sort_by, reverse)

\* _sort_sessions that never reverses the order
_sort_sessions_ascending(sessions, sort_by) ==
    IF sort_by \in {"created", "stopped", "name"}
    THEN SortedBy(sessions, Len(sessions), sort_by, FALSE)
    ELSE sessions

\* ACPClient._sort_sessions
_sort_sessions(sessions, sort_by) ==
    IF sort_by \in {"created", "stopped", "name"}
    THEN SortedBy(sessions, Len(sessions), sort_by, sort_by # "name")
    ELSE sessions

NoCriteria ==
    [status |-> "", has_display_name |-> "None", older_than |-> << >>,
     sort_by |-> "", limit |-> 0]

\* the filter predicates list_sessions builds, combined by all()
PassesFilters(s, c, cutoff) ==
    /\ c.status # "" => LowerWord(s.phase) = LowerWord(c.status)
    /\ c.has_display_name # "None" =>
          Bool(s.displayName # "") = c.has_display_name
    /\ c.older_than # << >> => _is_older_than(s.created, cutoff)

\* the keys of filters_applied
FiltersApplied(c) ==
    (IF c.status # "" THEN {"status"} ELSE {})
    \cup (IF c.has_display_name # "None" THEN {"has_display_name"} ELSE {})
    \cup (IF c.older_than # << >> THEN {"older_than"} ELSE {})
    \cup (IF c.sort_by # "" THEN {"sort_by"} ELSE {})
    \cup (IF c.limit > 0 THEN {"limit"} ELSE {})

\* a limit stage that keeps one record more than asked for
Limited_one_more(sorted, c) ==
    IF c.limit > 0 /\ c.limit + 1 < Len(sorted)
    THEN SubSeq(sorted, 1, c.limit + 1) ELSE sorted

\* the limit stage and the result dictionary of list_sessions
Limited(sorted, c) ==
    IF c.limit > 0 /\ c.limit < Len(sorted) THEN SubSeq(sorted, 1, c.limit) ELSE sorted

ListResult(limited, c) ==
    [exc |-> NoExc, sessions |-> limited, total |-> Len(limited),
     filters_applied |-> FiltersApplied(c)]

\* the filter and sort stages, given the parsed older_than
FilteredSorted(sessions, c, parsed) ==
    IF c.sort_by # ""
    THEN _sort_sessions(SelectSeq(sessions, LAMBDA s : PassesFilters(s, c, parsed.cutoff)),
                        c.sort_by)
    ELSE SelectSeq(sessions, LAMBDA s : PassesFilters(s, c, parsed.cutoff))

FilterParsed(sessions, c, parsed) ==
    IF ~parsed.ok
    THEN [exc |-> Raise("ValueError", "Invalid time format"),
          sessions |-> << >>, total |-> 0, filters_applied |-> {}]
    ELSE ListResult(Limited(FilteredSorted(sessions, c, parsed), c), c)

\* ACPClient.list_sessions after the list call returned `sessions`
FilterSortLimit(sessions, c, now) ==
    FilterParsed(sessions, c,
                 IF c.older_than # << >> THEN _parse_time_delta(c.older_than, now)
                 ELSE [ok |-> TRUE, cutoff |-> 0])

\* _list_resources_json after its oc get returned r
Listed(r) ==
    CASE r.out = "timeout" ->
            Ret(r.ctx, Raise("TimeoutError", OcMessage(r.out)), NoResult)
      [] r.out # "ok" ->
            Ret(r.ctx, Raise("Exception", "Failed to list"), NoResult)
      [] OTHER -> Ret(r.ctx, NoExc, r.items)

\* ACPClient._list_resources_json for agenticsession; selector is the set
\* of label strings of the -l argument (none when the set is empty)
_list_resources_json(ctx, resource_type, selector, plan) ==
    IF resource_type \notin ALLOWED_RESOURCE_TYPES
    THEN Ret(ctx, Raise("ValueError", "not allowed"), NoResult)
    ELSE IF ~_validate_input(Project)
    THEN Ret(ctx, Raise("ValueError", "invalid characters"), NoResult)
    ELSE Listed(_run_oc_command(ctx, "list", << >>, selector, plan))

\* the record the cluster returns for a tracked session
SessionRecord(cl, n) ==
    [name |-> n, phase |-> cl[n].phase, created |-> NoTimestamp,
     stoppedAt |-> NoTimestamp, displayName |-> ""]

\* list_sessions hands back the dictionary out, or raises out.exc
ListReturn(ctx, out) == Ret(ctx, out.exc, out)

\* list_sessions after the list call l
ListFetched(cl, l, c, now) ==
    IF l.exc.type # "none" THEN l
    ELSE ListReturn(l.ctx,
                    FilterSortLimit([i \in 1..Len(l.result) |->
                                        SessionRecord(cl, l.result[i])], c, now))

\* ACPClient.list_sessions against the cluster
list_sessions(ctx, c, selector, now, plan) ==
    ListFetched(ctx.cl, _list_resources_json(ctx, "agenticsession", selector, plan),
                c, now)

\* ACPClient.list_sessions_by_user_labels: the selector is the prefixed
\* key=value of every label of the map
list_sessions_by_user_labels(ctx, labels, plan) ==
    list_sessions(ctx, NoCriteria, {K8sLabel(l) : l \in labels}, 0, plan)

----------------------------------------------------------------------------
(* By-label bulk operations *)

\* the early validation letting one name more through
ByLabelOverLimit_plus_one(session_names) == Len(session_names) > MAX_BULK_ITEMS + 1

\* the early validation of the by-label operations:
\* len(session_names) > self.MAX_BULK_ITEMS
ByLabelOverLimit(session_names) == Len(session_names) > MAX_BULK_ITEMS

\* the result key of the bulk method behind a by-label operation
SuccessKey(op) ==
    CASE op = "delete" -> "deleted" [] op = "stop" -> "stopped" [] OTHER -> "restarted"

\* a by-label operation once the names are resolved
ByLabelApply(ctx, op, session_names, dry_run, plan) ==
    IF session_names = << >>
    THEN Ret(ctx, NoExc,
             [EmptyBulk(SuccessKey(op)) EXCEPT !.message = "No sessions found with labels"])
    ELSE IF ByLabelOverLimit(session_names)
    THEN Ret(ctx,
             [type |-> "ValueError",
              msg |-> "Label selector matches too many. Refine your labels",
              limit |-> MAX_BULK_ITEMS, count |-> Len(session_names)],
             NoResult)
    ELSE IF dry_run
    THEN Ret(ctx, NoExc,
             [EmptyBulk(SuccessKey(op)) EXCEPT
                !.dry_run = "True",
                !.matched = session_names,
                !.message = "Would apply. Review matched_sessions"])
    ELSE CASE op = "delete" -> bulk_delete_sessions(ctx, session_names, dry_run, plan)
           [] op = "stop" -> bulk_stop_sessions(ctx, session_names, dry_run, plan)
           [] OTHER -> bulk_restart_sessions(ctx, session_names, dry_run, plan)

\* a by-label operation after list_sessions_by_user_labels returned l
ByLabelListed(l, op, dry_run, plan) ==
    IF l.exc.type # "none" THEN Ret(l.ctx, l.exc, NoResult)
    ELSE ByLabelApply(l.ctx, op,
                      [i \in 1..Len(l.result.sessions) |-> l.result.sessions[i].name],
                      dry_run, plan)

\* bulk_delete_sessions_by_label, bulk_stop_sessions_by_label and
\* bulk_restart_sessions_by_label share one body; op names the bulk method
BulkByLabel(ctx, op, labels, dry_run, plan) ==
    ByLabelListed(list_sessions_by_user_labels(ctx, labels, plan), op, dry_run, plan)

\* ACPClient.bulk_delete_sessions_by_label
bulk_delete_sessions_by_label(ctx, labels, dry_run, plan) ==
    BulkByLabel(ctx, "delete", labels, dry_run, plan)

\* ACPClient.bulk_stop_sessions_by_label
bulk_stop_sessions_by_label(ctx, labels, dry_run, plan) ==
    BulkByLabel(ctx, "stop", labels, dry_run, plan)

\* ACPClient.bulk_restart_sessions_by_label
bulk_restart_sessions_by_label(ctx, labels, dry_run, plan) ==
    BulkByLabel(ctx, "restart", labels, dry_run, plan)

----------------------------------------------------------------------------
(* Requests.  A request names the layer it enters ("client": a method of    *)
(* ACPClient called directly, as the tests and demos do; "server": a tool   *)
(* call through call_tool), the client method, and its arguments.           *)

BulkOps == {"bulk_delete_sessions", "bulk_stop_sessions", "bulk_restart_sessions",
            "bulk_label_resources", "bulk_unlabel_resources"}
ByLabelOps == {"bulk_delete_sessions_by_label", "bulk_stop_sessions_by_label",
               "bulk_restart_sessions_by_label"}
SingleOps == {"delete_session", "restart_session", "label_resource",
              "unlabel_resource", "clone_session", "update_session",
              "create_session_from_template"}
LabelOps == {"bulk_label_resources", "bulk_unlabel_resources"}

NoRequest ==
    [layer |-> "none", op |-> "none", sessions |-> << >>, session |-> << >>,
     dry_run |-> FALSE, confirm |-> "absent", labels |-> {},
     resource_type |-> "agenticsession"]

\* target lists of at most n names
SeqsUpTo(S, n) == UNION { [1..k -> S] : k \in 0..n }

ConfirmValues(layer) ==
    IF layer = "server" THEN {"absent", "false", "true"} ELSE {"absent"}

BulkRequests ==
    { r \in [layer : {"client", "server"}, op : BulkOps,
             sessions : SeqsUpTo(TargetNames, MaxTargets), session : {<< >>},
             dry_run : BOOLEAN, confirm : {"absent", "false", "true"},
             labels : {UserLabels}, resource_type : {"agenticsession"}]
      : r.confirm \in ConfirmValues(r.layer) }

ByLabelRequests ==
    { r \in [layer : {"client", "server"}, op : ByLabelOps, sessions : {<< >>},
             session : {<< >>}, dry_run : BOOLEAN,
             confirm : {"absent", "false", "true"}, labels : {{}, {"env=prod"}, {"env=dev"}},
             resource_type : {"agenticsession"}]
      : r.confirm \in ConfirmValues(r.layer) }

SingleRequests ==
    { r \in [layer : {"client", "server"}, op : SingleOps, sessions : {<< >>},
             session : TargetNames, dry_run : BOOLEAN, confirm : {"absent"},
             labels : {UserLabels}, resource_type : {"agenticsession", "secret"}]
      : r.resource_type = "secret" => r.op \in {"label_resource", "unlabel_resource"} }

\* bulk label / unlabel of a resource type outside the allow-list, for no
\* name, one name and one name more than the bulk limit; the get and list
\* helpers called with a resource type inside and outside the allow-list
BadTypeRequests ==
    { [NoRequest EXCEPT !.layer = "client", !.op = op, !.sessions = ss,
                        !.dry_run = dry, !.labels = UserLabels,
                        !.resource_type = "secret"]
      : op \in LabelOps,
        ss \in SeqsUpTo({<<"a">>}, 1) \cup {[i \in 1..(MAX_BULK_ITEMS + 1) |-> <<"a">>]},
        dry \in BOOLEAN }
    \cup
    { [NoRequest EXCEPT !.layer = "client", !.op = op, !.session = <<"a">>,
                        !.resource_type = rt]
      : op \in {"_get_resource_json", "_list_resources_json"},
        rt \in {"agenticsession", "secret"} }

\* calls naming a resource whose name breaks the naming rule without
\* holding a shell metacharacter
NamingRequests ==
    { [NoRequest EXCEPT !.layer = "client", !.op = op, !.session = n,
                        !.dry_run = dry, !.labels = UserLabels]
      : op \in SingleOps \ {"create_session_from_template"},
        n \in {<<"A">>, <<"a", "_", "b">>}, dry \in BOOLEAN }
    \cup
    { [NoRequest EXCEPT !.layer = "client", !.op = op, !.sessions = <<n>>,
                        !.dry_run = dry, !.labels = UserLabels]
      : op \in BulkOps, n \in {<<"A">>, <<"a", "_", "b">>}, dry \in BOOLEAN }

----------------------------------------------------------------------------
(* Dispatch *)

\* the client method a request names, applied to its arguments
ClientMethod(ctx, req, plan) ==
    CASE req.op = "bulk_delete_sessions" ->
            bulk_delete_sessions(ctx, req.sessions, req.dry_run, plan)
      [] req.op = "bulk_stop_sessions" ->
            bulk_stop_sessions(ctx, req.sessions, req.dry_run, plan)
      [] req.op = "bulk_restart_sessions" ->
            bulk_restart_sessions(ctx, req.sessions, req.dry_run, plan)
      [] req.op = "bulk_label_resources" ->
            bulk_label_resources(ctx, req.resource_type, req.sessions, req.labels,
                                 req.dry_run, plan)
      [] req.op = "bulk_unlabel_resources" ->
            bulk_unlabel_resources(ctx, req.resource_type, req.sessions, req.labels,
                                   req.dry_run, plan)
      [] req.op = "bulk_delete_sessions_by_label" ->
            bulk_delete_sessions_by_label(ctx, req.labels, req.dry_run, plan)
      [] req.op = "bulk_stop_sessions_by_label" ->
            bulk_stop_sessions_by_label(ctx, req.labels, req.dry_run, plan)
      [] req.op = "bulk_restart_sessions_by_label" ->
            bulk_restart_sessions_by_label(ctx, req.labels, req.dry_run, plan)
      [] req.op = "delete_session" ->
            delete_session(ctx, req.session, req.dry_run, plan)
      [] req.op = "restart_session" ->
            restart_session(ctx, req.session, req.dry_run, plan)
      [] req.op = "label_resource" ->
            label_resource(ctx, req.resource_type, req.session, req.labels,
                           req.dry_run, plan)
      [] req.op = "unlabel_resource" ->
            unlabel_resource(ctx, req.resource_type, req.session, req.labels,
                             req.dry_run, plan)
      [] req.op = "clone_session" ->
            clone_session(ctx, req.session, req.dry_run, plan)
      [] req.op = "update_session" ->
            update_session(ctx, req.session, req.dry_run, plan)
      [] req.op = "create_session_from_template" ->
            create_session_from_template(ctx, req.dry_run, plan)
      [] req.op = "_get_resource_json" ->
            _get_resource_json(ctx, req.resource_type, req.session, plan)
      [] req.op = "_list_resources_json" ->
            _list_resources_json(ctx, req.resource_type, {}, plan)

\* fn(**args) in the server: the client's bulk methods take no `confirm`
\* parameter, so a `confirm` key among the arguments is a TypeError
CallWithArgs(ctx, req, plan) ==
    IF req.confirm # "absent"
    THEN Ret(ctx, Raise("TypeError", "got an unexpected keyword argument 'confirm'"),
             NoResult)
    ELSE ClientMethod(ctx, req, plan)

\* server._check_confirmation_then_execute
_check_confirmation_then_execute(ctx, req, plan) ==
    IF ~req.dry_run /\ req.confirm # "true"
    THEN Ret(ctx, Raise("ValueError", "requires explicit confirmation. Add confirm=true"),
             NoResult)
    ELSE CallWithArgs(ctx, req, plan)

\* the handlers of create_dispatch_table: the six async wrappers of
\* create_bulk_wrappers, the two plain lambdas of bulk label / unlabel (calling
\* one returns a coroutine that nothing awaits), and the client's own methods
HandlerKind(op) ==
    CASE op \in LabelOps -> "lambda"
      [] op \in BulkOps \cup ByLabelOps -> "wrapper"
      [] OTHER -> "method"

\* server.call_tool from the dispatch on
call_tool(ctx, req, plan) ==
    CASE HandlerKind(req.op) = "lambda" ->
            \* not a coroutine function: called without await, and the
            \* formatter is handed the coroutine object
            Ret(ctx, Raise("AttributeError", "'coroutine' object has no attribute 'get'"),
                NoResult)
      [] HandlerKind(req.op) = "wrapper" ->
            _check_confirmation_then_execute(ctx, req, plan)
      [] OTHER -> CallWithArgs(ctx, req, plan)

\* the text call_tool answers with
ResponseText(exc) ==
    CASE exc.type = "none" -> "formatted"
      [] exc.type = "ValueError" -> "Validation Error"
      [] exc.type = "TimeoutError" -> "Timeout Error"
      [] OTHER -> "Error"

----------------------------------------------------------------------------
(* The request loop *)

NoResponse ==
    [layer |-> "none", exc |-> NoExc, shape |-> "none", result |-> NoResult,
     text |-> ""]

ResultShape(req, r) ==
    IF r.exc.type # "none" THEN "none"
    ELSE IF req.op \in BulkOps \cup ByLabelOps THEN "bulk" ELSE "dict"

\* no helper under way
NoCall == [fn |-> "none", arg |-> << >>, key |-> "", state |-> "idle",
           ok |-> FALSE, out |-> << >>]

\* Python's None where a string is expected
None == <<"None">>

\* no registry file, no client handle
NoRegistry ==
    [file |-> [kind |-> "missing", clusters |-> << >>, default_cluster |-> None],
     client |-> "none",
     config |-> [clusters |-> << >>, default_cluster |-> None],
     loads |-> 0,
     last |-> [op |-> "none", out |-> "none", exc |-> "none", added |-> FALSE]]

\* session-listing pipeline at rest
NoListing ==
    [state |-> "idle", fetched |-> << >>, criteria |-> NoCriteria, now |-> 0,
     exc |-> NoExc, sessions |-> << >>, total |-> 0, filters_applied |-> {}]

InitWith(clusters) ==
    /\ cluster \in clusters
    /\ pc = "idle"
    /\ request = NoRequest
    /\ response = NoResponse
    /\ ocLog = << >>
    /\ opCalls = << >>
    /\ ls = NoListing
    /\ call = NoCall
    /\ reg = NoRegistry

\* a request arrives
Receive(requests) ==
    /\ pc = "idle"
    /\ \E req \in requests : request' = req
    /\ pc' = "pending"
    /\ response' = NoResponse
    /\ ocLog' = << >>
    /\ opCalls' = << >>
    /\ UNCHANGED <<cluster, ls, call, reg>>

StartCtx == [cl |-> cluster, log |-> << >>, ops |-> << >>]

\* faults are drawn for the oc processes the call starts: no call starts more
\* processes than it does when every process answers from the cluster
OcCallsUnfaulted(req) ==
    Len((IF req.layer = "server" THEN call_tool(StartCtx, req, NoFaults)
         ELSE ClientMethod(StartCtx, req, NoFaults)).ctx.log)

Finish(r) ==
    /\ cluster' = r.ctx.cl
    /\ ocLog' = r.ctx.log
    /\ opCalls' = r.ctx.ops
    /\ response' = [layer |-> request.layer, exc |-> r.exc,
                    shape |-> ResultShape(request, r), result |-> r.result,
                    text |-> IF request.layer = "server" THEN ResponseText(r.exc)
                             ELSE ""]
    /\ pc' = "done"
    /\ UNCHANGED <<request, ls, call, reg>>

\* a client method called directly runs to its return or its exception
ClientCall ==
    /\ pc = "pending"
    /\ request.layer = "client"
    /\ \E plan \in FaultPlansUpTo(OcCallsUnfaulted(request)) :
          Finish(ClientMethod(StartCtx, request, plan))

\* call_tool handles a tool call and answers with one text
CallTool ==
    /\ pc = "pending"
    /\ request.layer = "server"
    /\ \E plan \in FaultPlansUpTo(OcCallsUnfaulted(request)) :
          Finish(call_tool(StartCtx, request, plan))

\* the answer is handed back and the loop waits for the next request
Deliver ==
    /\ pc = "done"
    /\ pc' = "idle"
    /\ request' = NoRequest
    /\ response' = NoResponse
    /\ ocLog' = << >>
    /\ opCalls' = << >>
    /\ UNCHANGED <<cluster, ls, call, reg>>

\* clusters of the main specification: sessions a and b in any state
Init ==
    InitWith({ cl \in [Names -> SessionStates] :
                 cl[<<"c">>] = Absent /\ cl[<<"d">>] = Absent })

Next ==
    \/ Receive(BulkRequests \cup ByLabelRequests \cup SingleRequests
               \cup BadTypeRequests \cup NamingRequests)
    \/ ClientCall
    \/ CallTool
    \/ Deliver

Spec == Init /\ [][Next]_vars

\* The by-label operations against clusters of up to four sessions

NextByLabel ==
    \/ Receive(ByLabelRequests)
    \/ ClientCall
    \/ CallTool
    \/ Deliver

SpecByLabel == InitWith([Names -> SessionStates]) /\ [][NextByLabel]_vars

----------------------------------------------------------------------------
(* list_sessions on its own: the list call answers with the records in     *)
(* ls.fetched (distinct names, in name order), and the filter, sort and    *)
(* limit stages run over them.                                             *)

\* the clock reading of datetime.utcnow(), in minutes
Now == 2 * 60

RecordNames == << <<"a">>, <<"b">>, <<"c">> >>

RecordsNamed(n) ==
    [name : {n}, phase : {"Running", "Stopped"}, created : {NoTimestamp, Now - 61, Now - 60},
     stoppedAt : {NoTimestamp}, displayName : {"", "demo"}]

\* the answers of the list call: at most MaxRecords records, a subsequence
\* of RecordNames by name
RECURSIVE FetchedFrom(_, _)
FetchedFrom(i, room) ==
    IF i > Len(RecordNames) THEN {<< >>}
    ELSE FetchedFrom(i + 1, room)
         \cup (IF room = 0 THEN {}
               ELSE { <<r>> \o rest : r \in RecordsNamed(RecordNames[i]),
                                      rest \in FetchedFrom(i + 1, room - 1) })

CriteriaSet ==
    [status : {"", "running", "STOPPED"},
     has_display_name : {"None", "True", "False"},
     older_than : { << >>, <<"1", "h">>, <<"6", "0", "m">>, <<"x">> },
     sort_by : {"", "name", "created", "bogus"},
     limit : {-1, 0, 1}]

InitList ==
    /\ cluster = [n \in Names |-> Absent]
    /\ pc = "idle"
    /\ request = NoRequest
    /\ response = NoResponse
    /\ ocLog = << >>
    /\ opCalls = << >>
    /\ call = NoCall
    /\ reg = NoRegistry
    /\ ls \in [state : {"idle"}, fetched : FetchedFrom(1, MaxRecords),
                criteria : CriteriaSet, now : {Now}, exc : {NoExc},
                sessions : {<< >>}, total : {0}, filters_applied : {{}}]

\* the listing once list_sessions has ended: l is the list call, out the
\* result of the stages after it
ListOutcome(l, out) ==
    IF l.exc.type # "none"
    THEN [ls EXCEPT !.state = "returned", !.exc = l.exc]
    ELSE [ls EXCEPT !.state = "returned", !.exc = out.exc,
                    !.sessions = out.sessions,
                    !.total = out.total,
                    !.filters_applied = out.filters_applied]

\* ACPClient.list_sessions: the list call, then filter, sort and limit
ListSessions ==
    /\ ls.state = "idle"
    /\ \E plan \in FaultPlansUpTo(1) :
          /\ ocLog' = _list_resources_json(StartCtx, "agenticsession", {}, plan).ctx.log
          /\ ls' = ListOutcome(_list_resources_json(StartCtx, "agenticsession", {}, plan),
                               FilterSortLimit(ls.fetched, ls.criteria, ls.now))
    /\ UNCHANGED <<cluster, pc, request, response, opCalls, call, reg>>

SpecList == InitList /\ [][ListSessions]_vars

----------------------------------------------------------------------------
(* The helpers of the client applied on their own to inputs drawn from      *)
(* small alphabets: call holds the helper's name, its input and, once it    *)
(* has returned, whether it accepted (ok) and what it returned (out).       *)

\* the first complaint of the argument screen of _run_oc_command about one
\* argument: a value that is no string (isString = FALSE) or a string holding
\* a shell metacharacter
ArgRejection(a) ==
    IF ~a.isString THEN "All arguments must be strings"
    ELSE IF HasSuspiciousChars(a.text) THEN "Argument contains suspicious characters"
    ELSE "none"

\* an argument screen that looks at the first argument only
ArgScreen_first_only(args) ==
    IF args = << >> THEN "none" ELSE ArgRejection(Head(args))

\* the argument screen of _run_oc_command: the complaint about the first
\* offending argument, "none" when the process may be created
RECURSIVE ArgScreen(_)
ArgScreen(args) ==
    IF args = << >> THEN "none"
    ELSE IF ArgRejection(Head(args)) # "none" THEN ArgRejection(Head(args))
    ELSE ArgScreen(Tail(args))

\* formatters.format_bulk_result: what the text reports, the number of
\* successes, the names listed as successes and as failures (in dry-run: as
\* would-execute and as skipped), or that the formatter raised (the KeyError
\* of item['session'] on a failed entry without that key)
format_bulk_result(result, operation) ==
    IF Truthy(result.dry_run)
    THEN [raised |-> FALSE, count |-> Len(result.would_execute),
          listed |-> [i \in DOMAIN result.would_execute |->
                         result.would_execute[i].session],
          failed |-> [i \in DOMAIN result.skipped |-> result.skipped[i].session]]
    ELSE IF \E i \in DOMAIN result.failed : "session" \notin DOMAIN result.failed[i]
    THEN [raised |-> TRUE, count |-> 0, listed |-> << >>, failed |-> << >>]
    ELSE [raised |-> FALSE,
          count |-> IF result.success_key
                        = (IF operation = "delete" THEN "deleted"
                           ELSE IF operation = "stop" THEN "stopd"
                           ELSE operation)
                    THEN Len(result.succeeded) ELSE 0,
          listed |-> IF result.success_key
                        = (IF operation = "delete" THEN "deleted"
                           ELSE IF operation = "stop" THEN "stopd"
                           ELSE operation)
                     THEN result.succeeded ELSE << >>,
          failed |-> [i \in DOMAIN result.failed |-> result.failed[i].session]]

\* the calls applied: _parse_time_delta to duration strings, _sort_sessions
\* to at most MaxRecords session records in any order under a sort key,
\* _validate_input to short strings and to strings at the length limit,
\* _run_oc_command to argument lists, format_bulk_result to the results the
\* client's bulk methods return for up to two targets, under the operation
\* name the dispatch table binds to the tool
HelperCalls ==
    [fn : {"_parse_time_delta"},
     arg : SeqsUpTo({"1", "7", "d", "h", "m", "s", "D", " "}, MaxLen),
     key : {""}, state : {"idle"}, ok : {FALSE}, out : {<< >>}]
    \cup
    [fn : {"_sort_sessions"},
     arg : SeqsUpTo([name : {<<"a">>, <<"b">>}, phase : {"Running"},
                     created : {NoTimestamp, 1, 2},
                     stoppedAt : {NoTimestamp, 1, 2}, displayName : {""}],
                    MaxRecords),
     key : {"name", "created", "stopped", "bogus"},
     state : {"idle"}, ok : {FALSE}, out : {<< >>}]
    \cup
    [fn : {"_validate_input"},
     arg : SeqsUpTo({"a", "1", "-", "A", "_", ".", " ", ";", "|", "&",
                     "BACKQUOTE", "\n"}, MaxLen)
           \cup {[i \in 1..MAX_NAME_LENGTH |-> "a"],
                 [i \in 1..(MAX_NAME_LENGTH + 1) |-> "a"],
                 [i \in 1..MAX_NAME_LENGTH |->
                     IF i = MAX_NAME_LENGTH THEN "\n" ELSE "a"],
                 <<"a", "-", "-", "b">>},
     key : {""}, state : {"idle"}, ok : {FALSE}, out : {<< >>}]
    \cup
    [fn : {"_run_oc_command"},
     arg : SeqsUpTo([isString : {TRUE},
                     text : {<<"g", "e", "t">>, <<"-", "n">>, <<"a", ";">>,
                             <<"|">>, <<"&", "a">>, <<"$">>, <<"BACKQUOTE">>,
                             <<"a", "\n">>, <<"\r">>}]
                    \cup [isString : {FALSE}, text : {<<"5">>}],
                    MaxLen),
     key : {""}, state : {"idle"}, ok : {FALSE}, out : {<< >>}]
    \cup
    { [fn |-> "format_bulk_result",
       arg |-> ClientMethod([cl |-> cl, log |-> << >>, ops |-> << >>],
                            [NoRequest EXCEPT !.layer = "client", !.op = op,
                                              !.sessions = ss, !.dry_run = dry,
                                              !.labels = UserLabels],
                            NoFaults).result,
       key |-> CASE op = "bulk_delete_sessions" -> "delete"
                 [] op = "bulk_stop_sessions" -> "stop"
                 [] op = "bulk_restart_sessions" -> "restart"
                 [] op = "bulk_label_resources" -> "label"
                 [] op = "bulk_unlabel_resources" -> "unlabel",
       state |-> "idle", ok |-> FALSE, out |-> << >>]
      : op \in BulkOps, dry \in BOOLEAN,
        ss \in SeqsUpTo({<<"a">>, <<"b">>}, 2),
        cl \in { c \in [Names -> SessionStates] :
                   /\ c[<<"a">>] # Absent /\ c[<<"a">>].labels = {}
                   /\ c[<<"b">>] = Absent
                   /\ c[<<"c">>] = Absent /\ c[<<"d">>] = Absent } }

InitHelpers ==
    /\ cluster = [n \in Names |-> Absent]
    /\ pc = "idle"
    /\ request = NoRequest
    /\ response = NoResponse
    /\ ocLog = << >>
    /\ opCalls = << >>
    /\ ls = NoListing
    /\ call \in HelperCalls
    /\ reg = NoRegistry

\* the helper has returned, or raised (ok = FALSE)
Returns(ok, out) ==
    /\ call' = [call EXCEPT !.state = "returned", !.ok = ok, !.out = out]
    /\ UNCHANGED <<cluster, pc, request, response, ocLog, opCalls, ls, reg>>

\* ACPClient._parse_time_delta(call.arg) at clock reading Now
ParseTimeDelta ==
    /\ call.state = "idle" /\ call.fn = "_parse_time_delta"
    /\ Returns(_parse_time_delta(call.arg, Now).ok,
               _parse_time_delta(call.arg, Now).cutoff)

\* ACPClient._sort_sessions(call.arg, call.key)
SortSessions ==
    /\ call.state = "idle" /\ call.fn = "_sort_sessions"
    /\ Returns(TRUE, _sort_sessions(call.arg, call.key))

\* ACPClient._validate_input(call.arg, field_name)
ValidateInput ==
    /\ call.state = "idle" /\ call.fn = "_validate_input"
    /\ Returns(_validate_input(call.arg), << >>)

\* ACPClient._run_oc_command(call.arg) up to the creation of the process,
\* which goes on record in ocLog
RunOcCommand ==
    /\ call.state = "idle" /\ call.fn = "_run_oc_command"
    /\ call' = [call EXCEPT !.state = "returned",
                            !.ok = (ArgScreen(call.arg) = "none"),
                            !.out = ArgScreen(call.arg)]
    /\ ocLog' = IF ArgScreen(call.arg) = "none"
                THEN << [verb |-> "run", target |-> << >>, out |-> "ok",
                         items |-> << >>, selector |-> {}] >>
                ELSE ocLog
    /\ UNCHANGED <<cluster, pc, request, response, opCalls, ls, reg>>

\* formatters.format_bulk_result(call.arg, call.key), as call_tool applies it
\* to the result of a bulk handler
FormatBulkResult ==
    /\ call.state = "idle" /\ call.fn = "format_bulk_result"
    /\ Returns(~format_bulk_result(call.arg, call.key).raised,
               format_bulk_result(call.arg, call.key))

NextHelpers ==
    \/ FormatBulkResult
    \/ ParseTimeDelta
    \/ SortSessions
    \/ ValidateInput
    \/ RunOcCommand

SpecHelpers == InitHelpers /\ [][NextHelpers]_vars

----------------------------------------------------------------------------
(* The cluster registry.  reg.file is the registry file (missing, empty, or *)
(* a map of cluster names to server URL, default project and description    *)
(* with a default cluster name); reg.client the server's _client; reg.config *)
(* the registry the client holds; reg.loads counts the constructions of     *)
(* ACPClient; reg.last is the outcome of the last operation.  A server URL  *)
(* is a sequence of its parts, the scheme prefix first.                     *)

\* ClusterConfig.validate_server_url
validate_server_url(v) == Len(v) >= 1 /\ v[1] \in {"https://", "http://"}

\* ClusterConfig.default_project: a required str, then validate_project_name
validate_project_name(v) ==
    /\ v # None
    /\ v # << >>
    /\ Len(v) <= 63
    /\ \A i \in 1..Len(v) : v[i] \in AlnumChars \cup {"A", "-", "_"}
    /\ \E i \in 1..Len(v) : v[i] \notin {"-", "_"}

\* ClustersConfig.validate_default_cluster
validate_default_cluster(v, clusters) == v # None => v \in DOMAIN clusters

\* ClustersConfig.from_yaml, and the registry ACPClient.__init__ makes of it
from_yaml(file) ==
    IF file.kind = "missing"
    THEN [ok |-> FALSE, exc |-> "FileNotFoundError", config |-> NoRegistry.config]
    ELSE IF file.kind = "empty"
    THEN [ok |-> FALSE, exc |-> "ValueError", config |-> NoRegistry.config]
    ELSE IF \E n \in DOMAIN file.clusters :
               \/ ~validate_server_url(file.clusters[n].server)
               \/ ~validate_project_name(file.clusters[n].default_project)
    THEN [ok |-> FALSE, exc |-> "ValueError", config |-> NoRegistry.config]
    ELSE IF ~validate_default_cluster(file.default_cluster, file.clusters)
    THEN [ok |-> FALSE, exc |-> "ValueError", config |-> NoRegistry.config]
    ELSE [ok |-> TRUE, exc |-> "none",
          config |-> [clusters |-> file.clusters,
                      default_cluster |-> file.default_cluster]]

\* server.get_client: the handle is built when there is none; a failed
\* construction raises and leaves _client as it was
get_client(r) ==
    IF r.client # "none" THEN r
    ELSE IF from_yaml(r.file).ok
    THEN [r EXCEPT !.client = "built", !.config = from_yaml(r.file).config,
                   !.loads = @ + 1,
                   !.last = [op |-> "get_client", out |-> "returned",
                             exc |-> "none", added |-> FALSE]]
    ELSE [r EXCEPT !.loads = @ + 1,
                   !.last = [op |-> "get_client", out |-> "raised",
                             exc |-> from_yaml(r.file).exc, added |-> FALSE]]

\* ACPClient.list_clusters
list_clusters(config) ==
    [clusters |-> { [name |-> n, is_default |-> (n = config.default_cluster)]
                    : n \in DOMAIN config.clusters },
     default_cluster |-> config.default_cluster]

\* ACPClient.add_cluster up to the writing of the file: the message of the
\* check that refuses the arguments ("none" when all pass) and the registry
\* in memory afterwards
add_cluster(config, name, server, description, default_project, set_default) ==
    IF ~(\/ DnsCore(name)
         \/ /\ Len(name) >= 2 /\ name[Len(name)] = "\n"
            /\ DnsCore(SubSeq(name, 1, Len(name) - 1)))
    THEN [message |-> "Invalid cluster name format", config |-> config]
    ELSE IF ~validate_server_url(server)
    THEN [message |-> "Server must be a valid HTTP/HTTPS URL", config |-> config]
    ELSE IF description # None /\ Len(description) > 500
    THEN [message |-> "Description must be a string under 500 characters",
          config |-> config]
    ELSE IF default_project # None /\ default_project # << >>
            /\ ~_validate_input(default_project)
    THEN [message |-> "default_project contains invalid characters",
          config |-> config]
    ELSE [message |-> "none",
          config |->
            [clusters |->
               [n \in DOMAIN config.clusters \cup {name} |->
                   IF n = name
                   THEN [server |-> server,
                         description |-> IF description = None THEN << >>
                                         ELSE description,
                         default_project |-> default_project]
                   ELSE config.clusters[n]],
             default_cluster |-> IF set_default THEN name
                                 ELSE config.default_cluster]]

\* add_cluster from the writing of the file on.  The file system lets the
\* file be written and its mode set ("written"), refuses mkdir or open
\* ("refused"), or refuses chmod after the dump ("mode refused"); either
\* failure is caught by the general handler and answered with added = False
AddClusterDone(a, write) ==
    reg' = [reg EXCEPT
              !.config = a.config,
              !.file = IF a.message = "none" /\ write # "refused"
                       THEN [kind |-> "registry", clusters |-> a.config.clusters,
                             default_cluster |-> a.config.default_cluster]
                       ELSE @,
              !.last = [op |-> "add_cluster",
                        out |-> IF a.message # "none" THEN a.message
                                ELSE IF write = "written"
                                THEN "Successfully added cluster"
                                ELSE "Failed to add cluster",
                        exc |-> "none",
                        added |-> (a.message = "none" /\ write = "written")]]

\* ACPClient.add_cluster called on the client the server holds
AddCluster ==
    /\ reg.client = "built"
    /\ \E name \in {<<"c", "2">>, <<"C">>},
          server \in {<<"https://", "api", ":6443">>, <<"ftp://", "api">>},
          description \in {None, [i \in 1..501 |-> "d"]},
          default_project \in {None, <<"p">>, [i \in 1..64 |-> "a"], <<"A">>},
          set_default \in BOOLEAN,
          write \in {"written", "refused", "mode refused"} :
          AddClusterDone(add_cluster(reg.config, name, server, description,
                                     default_project, set_default),
                         write)
    /\ UNCHANGED <<cluster, pc, request, response, ocLog, opCalls, ls, call>>

\* server.call_tool up to the dispatch: get_client and create_dispatch_table
\* are called before the try block, so a failed construction leaves
\* call_tool as an exception; an unknown name is answered without a handler
ToolCalled ==
    /\ reg.client = "built" \/ reg.loads < MaxLoads
    /\ \E name \in {"acp_list_clusters", "acp_bogus"} :
          reg' = IF get_client(reg).client = "none"
                 THEN [get_client(reg) EXCEPT !.last.op = "call_tool",
                                              !.last.out = "escaped"]
                 ELSE [get_client(reg) EXCEPT
                         !.last = [op |-> "call_tool",
                                   out |-> IF name = "acp_bogus"
                                           THEN "Unknown tool" ELSE "dispatched",
                                   exc |-> "none", added |-> FALSE]]
    /\ UNCHANGED <<cluster, pc, request, response, ocLog, opCalls, ls, call>>

\* the server starts without a client, on any of the registry files it may
\* find: none, an empty one, or a map of clusters with a default cluster
InitRegistry ==
    /\ cluster = [n \in Names |-> Absent]
    /\ pc = "idle"
    /\ request = NoRequest
    /\ response = NoResponse
    /\ ocLog = << >>
    /\ opCalls = << >>
    /\ ls = NoListing
    /\ call = NoCall
    /\ reg \in { [NoRegistry EXCEPT !.file = f] : f \in
              {NoRegistry.file,
               [kind |-> "empty", clusters |-> << >>, default_cluster |-> None]}
              \cup
              [kind : {"registry"},
               clusters : {<< >>}
                          \cup { (<<"c", "1">> :> c)
                                 : c \in [server : {<<"https://", "api", ":6443">>,
                                                   <<"https://", "api", ":22">>,
                                                   <<"https://">>,
                                                   <<"api", ":6443">>},
                                          description : {None},
                                          default_project : {<<"p">>}] },
               default_cluster : {None, <<"c", "1">>, <<"c", "2">>}] }

NextRegistry ==
    \/ ToolCalled
    \/ AddCluster

SpecRegistry == InitRegistry /\ [][NextRegistry]_vars

----------------------------------------------------------------------------
(* Properties.  They are stated over the state in which a call has        *)
(* returned (pc = "done"): request holds the call, response its outcome,  *)
(* ocLog the oc processes it started, opCalls the per-target operations   *)
(* it invoked, in order.                                                  *)

Returned == pc = "done"

\* the names of a list of per-target entries
EntryNames(entries) ==
    [i \in DOMAIN entries |->
        IF "resource" \in DOMAIN entries[i] THEN entries[i].resource
        ELSE entries[i].session]

\* z is x and y interleaved, each in its own order
RECURSIVE IsMerge(_, _, _)
IsMerge(x, y, z) ==
    IF z = << >> THEN x = << >> /\ y = << >>
    ELSE \/ x # << >> /\ Head(x) = Head(z) /\ IsMerge(Tail(x), y, Tail(z))
         \/ y # << >> /\ Head(y) = Head(z) /\ IsMerge(x, Tail(y), Tail(z))

Occurrences(seq, x) == Cardinality({i \in DOMAIN seq : seq[i] = x})

\* oc processes of the call that changed the named session
OkMutations(n) ==
    Cardinality({i \in DOMAIN ocLog : /\ ocLog[i].target = n
                                       /\ ocLog[i].verb \in MutatingVerbs
                                       /\ ocLog[i].out = "ok"})

\* the targets of the returned bulk call: the names given, or the names the
\* list call of a by-label operation resolved
BulkTargets ==
    IF request.op \in ByLabelOps
    THEN IF ocLog # << >> THEN ocLog[1].items ELSE << >>
    ELSE request.sessions

\* C1: every bulk operation of the client given more than 3 targets raises a
\* ValueError naming the limit 3 and the requested count before any
\* per-target operation is invoked and before any oc process is started; a
\* call with at most 3 targets is not rejected by the cap.
C1_BulkCap ==
    (Returned /\ request.layer = "client" /\ request.op \in BulkOps) =>
        IF Len(request.sessions) > 3
        THEN /\ response.exc.type = "ValueError"
             /\ response.exc.msg = "Bulk limited to items for safety"
             /\ response.exc.limit = 3
             /\ response.exc.count = Len(request.sessions)
             /\ opCalls = << >>
             /\ ocLog = << >>
        ELSE response.exc.msg # "Bulk limited to items for safety"

C1_Witness ==
    /\ Returned /\ request.layer = "client" /\ request.op \in BulkOps
    /\ Len(request.sessions) = 4
    /\ response.exc.type = "ValueError" /\ response.exc.count = 4
    /\ ocLog = << >>

\* C2: through call_tool, every gated bulk tool (bulk label and unlabel
\* included) called with neither dry_run nor confirm true calls no client
\* method, starts no oc process and answers with the validation error that
\* says the operation requires explicit confirmation.
C2_ConfirmationGate ==
    (/\ Returned /\ request.layer = "server"
     /\ request.op \in BulkOps \cup ByLabelOps
     /\ ~request.dry_run /\ request.confirm # "true") =>
        /\ opCalls = << >>
        /\ ocLog = << >>
        /\ response.text = "Validation Error"
        /\ response.exc.msg = "requires explicit confirmation. Add confirm=true"

\* C3: through call_tool, a gated bulk tool called with confirm true, dry_run
\* unset and at most 3 targets passes the gate: the client's bulk method runs
\* and the per-target operation is attempted for every listed target.
C3_ConfirmedRuns ==
    (/\ Returned /\ request.layer = "server" /\ request.op \in BulkOps
     /\ ~request.dry_run /\ request.confirm = "true"
     /\ Len(request.sessions) <= 3) =>
        /\ response.exc.type \notin {"TypeError", "AttributeError"}
        /\ opCalls = request.sessions

\* C4: a non-dry-run bulk operation that returns reports every target in
\* exactly one of succeeded and failed, each in input order, the two lengths
\* adding up to the number of targets; a failed entry carries a reason; and a
\* target is reported succeeded exactly when its own oc command succeeded,
\* whatever happened to the other targets.
C4_Partition ==
    (Returned /\ response.shape = "bulk" /\ ~request.dry_run) =>
        LET res == response.result
        IN /\ IsMerge(res.succeeded, EntryNames(res.failed), BulkTargets)
           /\ Len(res.succeeded) + Len(res.failed) = Len(BulkTargets)
           /\ \A i \in DOMAIN res.failed : res.failed[i].error # "None"
           /\ \A n \in Names \cup TargetNames :
                Occurrences(res.succeeded, n) = OkMutations(n)

C4_Witness ==
    /\ Returned /\ response.shape = "bulk" /\ ~request.dry_run
    /\ request.op \in BulkOps /\ Len(request.sessions) = 3
    /\ response.result.succeeded # << >>
    /\ response.result.failed # << >>
    /\ EntryNames(response.result.failed)[1] = request.sessions[1]

\* C5: in a bulk operation of at most 3 targets no per-target failure
\* (non-zero exit, not found, timeout, validator rejection) leaves the call
\* as an exception, and every target is attempted.
C5_FailuresCaptured ==
    (/\ Returned /\ request.layer = "client" /\ request.op \in BulkOps
     /\ Len(request.sessions) <= 3
     /\ request.resource_type \in ALLOWED_RESOURCE_TYPES) =>
        /\ response.exc.type = "none"
        /\ opCalls = request.sessions

\* C6: a call with dry_run true, of any operation that takes the flag, starts
\* no mutating oc process and leaves the cluster as it was.
C6_DryRunNoMutation ==
    [][(pc = "pending" /\ pc' = "done" /\ request.dry_run) =>
          /\ cluster' = cluster
          /\ \A i \in DOMAIN ocLog' : ocLog'[i].verb \notin MutatingVerbs]_vars

C6_Witness ==
    /\ Returned /\ request.dry_run /\ request.op = "bulk_delete_sessions"
    /\ Len(request.sessions) = 3
    /\ Len(ocLog) = 3

\* C7: a dry-run bulk delete, stop, restart, label or unlabel makes one
\* read-only lookup per target, reports every target in exactly one of
\* would_execute and skipped, and reports none as succeeded or failed.
C7_DryRunPreview ==
    (/\ Returned /\ request.layer = "client" /\ request.op \in BulkOps
     /\ request.dry_run /\ response.shape = "bulk") =>
        LET res == response.result
        IN /\ Len(ocLog) = Len(request.sessions)
           /\ \A i \in DOMAIN ocLog : /\ ocLog[i].verb = "get"
                                      /\ ocLog[i].target = request.sessions[i]
           /\ IsMerge(EntryNames(res.would_execute), EntryNames(res.skipped),
                      request.sessions)
           /\ res.succeeded = << >>
           /\ res.failed = << >>

\* the targets of a delete call
DeleteTargets ==
    IF request.op = "delete_session" THEN <<request.session>> ELSE request.sessions

\* every target of the returned delete call was gone before the call: it is
\* gone now and no oc process of the call deleted anything
AlreadyDeleted ==
    /\ \A i \in DOMAIN DeleteTargets :
          DeleteTargets[i] \in Names /\ ~Exists(cluster, DeleteTargets[i])
    /\ \A i \in DOMAIN ocLog : ocLog[i].out # "ok"

\* C8: deleting names that are already deleted, singly or in bulk, never
\* raises; each target the upstream reports as not found comes back as a
\* failure carrying the not-found message.
C8_DeleteIdempotent ==
    (/\ Returned /\ request.layer = "client" /\ ~request.dry_run
     /\ request.op \in {"delete_session", "bulk_delete_sessions"}
     /\ Len(DeleteTargets) <= 3
     /\ AlreadyDeleted) =>
        /\ response.exc.type = "none"
        /\ request.op = "delete_session" =>
              (ocLog[1].out = "notfound" =>
                 /\ response.result["deleted"] = "False"
                 /\ response.result["message"] = "not found")
        /\ request.op = "bulk_delete_sessions" =>
              /\ response.result.succeeded = << >>
              /\ \A i \in DOMAIN ocLog :
                    ocLog[i].out = "notfound" =>
                       \E j \in DOMAIN response.result.failed :
                          response.result.failed[j] =
                             [session |-> ocLog[i].target, error |-> "not found"]

\* the resolved names of the returned by-label call
Resolved == ocLog[1].items

IsPrefix(x, y) == Len(x) <= Len(y) /\ x = SubSeq(y, 1, Len(x))

CaseVariants(w) ==
    CASE w = "running" -> {"running", "Running", "RUNNING"}
      [] w = "stopped" -> {"stopped", "Stopped", "STOPPED"}

\* the minutes a duration string stands for
Minutes(d) == CASE d = <<"1", "h">> -> 60 [] d = <<"6", "0", "m">> -> 60

\* record r satisfies every predicate the criteria of the listing supply
Satisfies(r) ==
    LET c == ls.criteria
    IN /\ c.status # "" =>
             \E w \in {"running", "stopped"} :
                r.phase \in CaseVariants(w) /\ c.status \in CaseVariants(w)
       /\ c.older_than # << >> =>
             r.created # NoTimestamp /\ r.created < ls.now - Minutes(c.older_than)
       /\ c.has_display_name # "None" =>
             ((r.displayName # "") <=> (c.has_display_name = "True"))

\* C10: list_sessions returns exactly the fetched records that satisfy every
\* supplied predicate (status ignoring case, creation strictly earlier than
\* now minus the duration and never without a timestamp, presence of a
\* display name equal to the flag); with no sort key they keep their order.
C10_Filter ==
    (ls.state = "returned" /\ ls.exc.type = "none" /\ ls.criteria.limit = 0) =>
        /\ {ls.sessions[i] : i \in DOMAIN ls.sessions}
              = {ls.fetched[i] : i \in {j \in DOMAIN ls.fetched : Satisfies(ls.fetched[j])}}
        /\ Len(ls.sessions)
              = Cardinality({j \in DOMAIN ls.fetched : Satisfies(ls.fetched[j])})
        /\ ls.criteria.sort_by = "" =>
              ls.sessions = SelectSeq(ls.fetched, Satisfies)

C10_Witness ==
    /\ ls.state = "returned" /\ ls.exc.type = "none"
    /\ ls.criteria.limit = 0 /\ ls.criteria.sort_by = ""
    /\ ls.criteria.status # "" /\ ls.criteria.older_than # << >>
    /\ ls.criteria.has_display_name # "None"
    /\ Len(ls.fetched) = 2 /\ Len(ls.sessions) = 1
    /\ \E i \in DOMAIN ls.fetched : ls.fetched[i].created = Now - 60

\* a duration of the form <integer><unit>, unit in {d, h, m}, in either case
WellFormedDuration(str) ==
    /\ Len(str) >= 2
    /\ \A i \in 1..(Len(str) - 1) : str[i] \in DigitChars
    /\ str[Len(str)] \in {"d", "h", "m", "D", "H", "M"}

\* C11: _parse_time_delta accepts a string only when it is <integer><unit>
\* with unit d, h or m; the empty string, a string without unit, with an
\* unknown unit, or with characters after the unit is rejected.
C11_ParserRejects ==
    (call.state = "returned" /\ call.fn = "_parse_time_delta") =>
        (call.ok <=> WellFormedDuration(call.arg))

\* the number of positions of seq holding x
Count(seq, x) == Cardinality({ i \in 1..Len(seq) : seq[i] = x })

\* position of a session name in alphabetical order
NameRank(name) == IF name = <<"a">> THEN 1 ELSE 2

\* sessions a, b are in the order the sort key asks for
InOrder(sort_by, a, b) ==
    CASE sort_by = "name" -> NameRank(a.name) <= NameRank(b.name)
      [] sort_by = "created" -> a.created >= b.created
      [] sort_by = "stopped" -> a.stoppedAt >= b.stoppedAt
      [] OTHER -> TRUE

\* C12: _sort_sessions returns a permutation of its input, ascending by name
\* for 'name', newest first for 'created' and 'stopped', and the input
\* itself, without raising, for an unrecognised key.
C12_Sort ==
    (call.state = "returned" /\ call.fn = "_sort_sessions") =>
        /\ call.ok
        /\ Len(call.out) = Len(call.arg)
        /\ \A i \in 1..Len(call.arg) :
               Count(call.out, call.arg[i]) = Count(call.arg, call.arg[i])
        /\ \A i, j \in 1..Len(call.out) :
               i < j => InOrder(call.key, call.out[i], call.out[j])
        /\ call.key \notin {"name", "created", "stopped"} => call.out = call.arg

\* two sessions listed oldest first have been sorted by creation time
C12_Witness ==
    /\ call.state = "returned" /\ call.fn = "_sort_sessions"
    /\ call.key = "created"
    /\ Len(call.arg) = 2
    /\ call.arg[1].created < call.arg[2].created
    /\ call.out = << call.arg[2], call.arg[1] >>

\* the fetched records that satisfy the criteria, in the order asked for
Matching == SelectSeq(ls.fetched, Satisfies)
MatchingSorted ==
    IF ls.criteria.sort_by \in {"name", "created", "stopped"}
    THEN _sort_sessions(Matching, ls.criteria.sort_by)
    ELSE Matching

\* C13: with a limit N > 0 list_sessions returns the first min(N, matching)
\* records of the filtered and sorted list, with N <= 0 or no limit all of
\* them; total is always the length of the returned list.
C13_Limit ==
    (ls.state = "returned" /\ ls.exc.type = "none") =>
        /\ ls.total = Len(ls.sessions)
        /\ ls.criteria.limit <= 0 => ls.sessions = MatchingSorted
        /\ ls.criteria.limit > 0 =>
              /\ Len(ls.sessions) = IF ls.criteria.limit < Len(MatchingSorted)
                                    THEN ls.criteria.limit
                                    ELSE Len(MatchingSorted)
              /\ \A i \in 1..Len(ls.sessions) : ls.sessions[i] = MatchingSorted[i]

\* two records match, newest first was asked for, one was returned
C13_Witness ==
    /\ ls.state = "returned" /\ ls.exc.type = "none"
    /\ ls.criteria.limit = 1 /\ ls.criteria.sort_by = "created"
    /\ Len(Matching) = 2
    /\ Matching[1].created < Matching[2].created
    /\ ls.sessions = << Matching[2] >>
    /\ ls.total = 1

\* the criteria of the listing that took effect
CriteriaInEffect ==
    (IF ls.criteria.status # "" THEN {"status"} ELSE {})
    \cup (IF ls.criteria.has_display_name # "None" THEN {"has_display_name"} ELSE {})
    \cup (IF ls.criteria.older_than # << >> THEN {"older_than"} ELSE {})
    \cup (IF ls.criteria.sort_by \in {"name", "created", "stopped"}
          THEN {"sort_by"} ELSE {})
    \cup (IF ls.criteria.limit > 0 THEN {"limit"} ELSE {})

\* C14: filters_applied names exactly the criteria that took effect: status,
\* has_display_name, older_than, a recognised sort key and a positive limit;
\* an unrecognised sort key and a non-positive limit leave no entry.
C14_FiltersApplied ==
    (ls.state = "returned" /\ ls.exc.type = "none") =>
        ls.filters_applied = CriteriaInEffect

\* C17: a call that ends in a validation error has started no oc process;
\* list_sessions given a malformed older_than fails before its list call.
C17_ValidationBeforeOc ==
    (ls.state = "returned" /\ ls.exc.type = "ValueError") => ocLog = << >>

\* str is made of non-empty lowercase alphanumeric segments joined by single
\* hyphens and is at most 253 characters long
WellFormedName(str) ==
    /\ Len(str) >= 1 /\ Len(str) <= 253
    /\ \A i \in 1..Len(str) : str[i] \in LowerChars \cup DigitChars \cup {"-"}
    /\ str[1] # "-" /\ str[Len(str)] # "-"
    /\ \A i \in 1..(Len(str) - 1) : ~(str[i] = "-" /\ str[i + 1] = "-")

\* C15: _validate_input accepts exactly the strings of at most 253
\* characters made of lowercase alphanumeric segments joined by single
\* hyphens; uppercase, underscore, dot, space, 254 characters and a ';',
\* '|', '&', backquote or newline at any position, the last included, are
\* rejected.
C15_NamingRule ==
    (call.state = "returned" /\ call.fn = "_validate_input") =>
        (call.ok <=> WellFormedName(call.arg))

\* argument a of an oc command is no string or holds a shell metacharacter
Offending(a) ==
    \/ ~a.isString
    \/ \E i \in 1..Len(a.text) :
          a.text[i] \in {";", "|", "&", "$", "BACKQUOTE", "\n", "\r"}

\* C19 as stated: whenever an argument is no string or holds one of
\* ; | & $ backquote \n \r, _run_oc_command starts no process and raises the
\* 'suspicious characters' error.
C19_SuspiciousAlways ==
    (call.state = "returned" /\ call.fn = "_run_oc_command"
     /\ \E i \in 1..Len(call.arg) : Offending(call.arg[i])) =>
        /\ ocLog = << >>
        /\ ~call.ok
        /\ call.out = "Argument contains suspicious characters"

\* C19: whenever an argument, at whatever position, is no string or holds
\* one of ; | & $ backquote \n \r, _run_oc_command starts no process and
\* raises a ValueError: 'must be strings' when the first offending argument
\* is no string, 'suspicious characters' otherwise; without an offending
\* argument the process is created.
C19_ArgScreen ==
    (call.state = "returned" /\ call.fn = "_run_oc_command") =>
        IF \E i \in 1..Len(call.arg) : Offending(call.arg[i])
        THEN /\ ocLog = << >>
             /\ ~call.ok
             /\ \E i \in 1..Len(call.arg) :
                   /\ Offending(call.arg[i])
                   /\ \A j \in 1..(i - 1) : ~Offending(call.arg[j])
                   /\ call.out = IF call.arg[i].isString
                                 THEN "Argument contains suspicious characters"
                                 ELSE "All arguments must be strings"
        ELSE call.ok /\ Len(ocLog) = 1

\* the last of three arguments holds a ';' and the call was refused
C19_Witness ==
    /\ call.state = "returned" /\ call.fn = "_run_oc_command"
    /\ Len(call.arg) = 3
    /\ ~Offending(call.arg[1]) /\ ~Offending(call.arg[2])
    /\ call.arg[3].text = <<"a", ";">>
    /\ call.out = "Argument contains suspicious characters"
    /\ ocLog = << >>

\* the resource names a request hands to an operation that takes names
NamedTargets ==
    IF request.op \in BulkOps
    THEN {request.sessions[i] : i \in DOMAIN request.sessions}
    ELSE IF request.op \in SingleOps \ {"create_session_from_template"}
    THEN {request.session}
    ELSE {}

\* C16: every operation that takes a project and a resource name validates
\* both before it starts an oc process: a call whose names all break the
\* naming rule has started no oc process when it ends.
C16_NamesValidated ==
    (Returned /\ NamedTargets # {}
     /\ \A n \in NamedTargets : ~WellFormedName(n)) =>
        ocLog = << >>

\* the request names a resource type outside the allow-list
TypeRefused ==
    /\ Returned
    /\ request.resource_type \notin {"agenticsession", "pods", "event"}

C20_TimeoutSurfaced ==
    (Returned /\ request.layer = "server" /\ request.op \in SingleOps
     /\ \E i \in DOMAIN ocLog : ocLog[i].out = "timeout") =>
        /\ response.exc.type = "TimeoutError"
        /\ response.text = "Timeout Error"

\* C26: call_tool hands the formatter the result of the handler run to its
\* end: a bulk label or unlabel tool call ends in the confirmation error when
\* it is neither confirmed nor a dry run, and otherwise in what the client's
\* bulk method returned or raised, never in a failure of the formatter over
\* a pending coroutine.
C26_HandlerAwaited ==
    (Returned /\ request.layer = "server" /\ request.op \in LabelOps) =>
        /\ response.exc.type # "AttributeError"
        /\ (~request.dry_run /\ request.confirm # "true") =>
              response.exc.msg = "requires explicit confirmation. Add confirm=true"

\* C27: a by-label bulk operation called with an empty label map selects no
\* session: no per-target operation is invoked and no oc process deletes,
\* stops or restarts anything.
C27_EmptyLabelsSelectNothing ==
    (Returned /\ request.op \in ByLabelOps /\ request.labels = {}) =>
        /\ opCalls = << >>
        /\ \A i \in DOMAIN ocLog : ocLog[i].verb \notin MutatingVerbs
        /\ response.exc.type = "none" => response.result.matched = << >>

\* C28: a target that a dry-run of bulk stop would report as skipped on the
\* cluster as it is (not found, or not in the running phase) is neither
\* patched nor reported as stopped by the real run on that cluster.
C28_StopAgreesWithDryRun ==
    [][(/\ pc = "pending" /\ pc' = "done"
        /\ request.layer = "client" /\ request.op = "bulk_stop_sessions"
        /\ ~request.dry_run /\ Len(request.sessions) <= 3) =>
          \A k \in DOMAIN request.sessions :
             (\/ ~Exists(cluster, request.sessions[k])
              \/ cluster[request.sessions[k]].phase # "running") =>
                /\ \A i \in DOMAIN ocLog' :
                      ~(ocLog'[i].verb = "patch"
                        /\ ocLog'[i].target = request.sessions[k])
                /\ response'.shape = "bulk" =>
                      \A j \in DOMAIN response'.result.succeeded :
                         response'.result.succeeded[j] # request.sessions[k]]_vars

\* C25: the text call_tool makes of a non-dry-run result of a bulk delete,
\* stop, restart, label or unlabel reports as many successes as the client
\* put in its succeeded list and lists each of them, and lists each failed
\* target, without raising.
C25_BulkReport ==
    (call.state = "returned" /\ call.fn = "format_bulk_result"
     /\ call.arg.dry_run # "True") =>
        /\ call.ok
        /\ call.out.count = Len(call.arg.succeeded)
        /\ call.out.listed = call.arg.succeeded
        /\ call.out.failed = EntryNames(call.arg.failed)

\* C21: call_tool never lets an exception leave it: whatever fails,
\* construction of the client included, the caller gets one text response.
C21_NeverEscapes ==
    reg.last.op = "call_tool" => reg.last.out # "escaped"

\* C22: the client handle is constructed at most once: after a construction
\* that failed no later call constructs it again.
C22_BuiltAtMostOnce ==
    reg.loads <= 1

\* C23: loading the registry fails when the default cluster is not one of
\* the clusters or a server URL is malformed: a registry that is loaded has
\* its default cluster among its clusters and a host in every server URL.
C23_LoadFailsClosed ==
    [][(reg.client = "none" /\ reg'.client = "built") =>
          /\ reg.file.default_cluster \in DOMAIN reg.file.clusters
          /\ \A n \in DOMAIN reg.file.clusters :
                Len(reg.file.clusters[n].server) >= 2]_vars

\* C24: in every state reached from a loaded registry by add_cluster calls,
\* list_clusters marks exactly one cluster as default and default_cluster
\* names a cluster of the registry.
C24_ExactlyOneDefault ==
    reg.client = "built" =>
        /\ Cardinality({c \in list_clusters(reg.config).clusters :
                           c.is_default}) = 1
        /\ list_clusters(reg.config).default_cluster
              \in DOMAIN reg.config.clusters

\* C29: the registry file an add_cluster call wrote with added = True loads
\* again, to the clusters and the default cluster the client holds.
C29_WrittenFileLoads ==
    (reg.last.op = "add_cluster" /\ reg.last.added) =>
        /\ from_yaml(reg.file).ok
        /\ from_yaml(reg.file).config = reg.config

\* C30: an add_cluster call answered with added = False leaves the registry
\* in memory as it was.
C30_RefusedAddChangesNothing ==
    [][(reg'.last.op = "add_cluster" /\ ~reg'.last.added) =>
          reg'.config = reg.config]_vars

====
